---------------------------- MODULE Spec2Model ----------------------------
(***************************************************************************)
(* Outbound Redis host of spin (crates/factor-outbound-redis/src/host.rs): *)
(* the connection table of one InstanceState, the modern (v2) handle-based *)
(* operations, and the legacy (v1) address-based operations that delegate  *)
(* to them.  The allow-list gate, the redis client and the server are the  *)
(* environment: their answers are inputs of the actions.                   *)
(***************************************************************************)
EXTENDS Integers, Sequences, FiniteSets, TLC

\* ------------------------------------------------------------------ bounds
\* Maximum number of simultaneous entries of the connection table.
Capacity == 2

\* Resource representations a caller can present: one more than the table
\* can hold, so that some handle is always free and some is never live.
Handles == 0 .. Capacity

NoHandle == 0 - 1

\* ------------------------------------------------------------ result types
Ok(val) == [tag |-> "Ok", val |-> val]

Err(e) == [tag |-> "Err", err |-> e]

Unit == "()"

\* v2::Error
InvalidAddress == [type |-> "v2", kind |-> "InvalidAddress", msg |-> ""]

TooManyConnections == [type |-> "v2", kind |-> "TooManyConnections", msg |-> ""]

TypeError == [type |-> "v2", kind |-> "TypeError", msg |-> ""]

Other(m) == [type |-> "v2", kind |-> "Other", msg |-> m]

\* v1::Error has the single variant Error.
V1Error == [type |-> "v1", kind |-> "Error", msg |-> ""]

\* redis::RedisError of a given redis::ErrorKind, with its Display text.
RedisError(kind) ==
    [type |-> "redis", kind |-> kind,
     msg |-> CASE kind = "TypeError" -> "Response was of incompatible type"
               [] OTHER -> "broken pipe"]

\* anyhow::Error returned by the allow-list gate.
GateError == [type |-> "anyhow", kind |-> "", msg |-> "allowed hosts could not be resolved"]

\* e.to_string(): a v2::Error displays as its variant, the environment's
\* errors display their message.
to_string(e) ==
    IF e.type # "v2" THEN e.msg
    ELSE IF e.kind = "Other" THEN "Error::Other(" \o e.msg \o ")"
    ELSE "Error::" \o e.kind

\* other_error as it would be if it singled out the type mismatch.
other_error_discriminating(e) ==
    IF e.type = "redis" /\ e.kind = "TypeError" THEN TypeError ELSE Other(to_string(e))

other_error(e) == Other(to_string(e))

\* --------------------------------------------------------- the environment
\* Addresses a caller may pass, named after what the gate and the client's
\* parser make of them.
Addresses == {"redis://allowed", "redis://denied", "redis://gate-fails", "allowed-unparseable"}

\* OutboundAllowedHosts::check_url(address, "redis")
check_url(address) ==
    CASE address = "redis://denied" -> Ok(FALSE)
      [] address = "redis://gate-fails" -> Err(GateError)
      [] OTHER -> Ok(TRUE)

\* redis::Client::open(address): only parses the address.
ClientOpenParses(address) == address # "allowed-unparseable"

\* The error of a failed get_async_connection.
ConnectError == [type |-> "redis", kind |-> "IoError", msg |-> "Connection refused"]

\* Kinds of redis::RedisError a command can fail with.
TransportErrors == {"TypeError", "IoError"}

\* ------------------------------------------------------------- table::Table
\* The table is a partial function from resource representations to the
\* connections they own.
TableFull(t) == Cardinality(DOMAIN t) >= Capacity

FreeKeys(t) == Handles \ DOMAIN t

\* Table::push with the key the table picks: any key that is not in use.
TablePush(t, key, v) ==
    IF TableFull(t) THEN Err(Unit)
    ELSE Ok([key |-> key, table |-> (key :> v) @@ t])

\* Table::get_mut
TableGet(t, key) == IF key \in DOMAIN t THEN Ok(t[key]) ELSE Err(Unit)

\* Table::remove
TableRemove(t, key) == [k \in DOMAIN t \ {key} |-> t[k]]

Range(t) == {t[k] : k \in DOMAIN t}

\* The transport object of a new connection: an identity no live connection
\* has (the smallest such).
NewConnection(t) ==
    CHOOSE c \in 0 .. Cardinality(DOMAIN t) :
        c \notin Range(t) /\ \A d \in 0 .. (c - 1) : d \in Range(t)

\* ------------------------------------------------------ redis reply values
\* redis::Value
ValueNil == [t |-> "Nil"]

ValueOkay == [t |-> "Okay"]

ValueInt(v) == [t |-> "Int", v |-> v]

ValueData(bytes) == [t |-> "Data", v |-> bytes]

ValueBulk(items) == [t |-> "Bulk", v |-> items]

ValueStatus(message) == [t |-> "Status", v |-> message]

\* v2::RedisResult
Int64(v) == [t |-> "Int64", v |-> v]

Binary(bytes) == [t |-> "Binary", v |-> bytes]

StatusResult(message) == [t |-> "Status", v |-> message]

RECURSIVE append_reversed(_, _)
\* append as it would be if an array's items were visited from the last to the
\* first.
append_reversed(values, value) ==
    CASE value.t \in {"Nil", "Okay"} -> values
      [] value.t = "Int" -> Append(values, Int64(value.v))
      [] value.t = "Data" -> Append(values, Binary(value.v))
      [] value.t = "Bulk" ->
            IF value.v = <<>> THEN values
            ELSE append_reversed(append_reversed(values, value.v[Len(value.v)]),
                                 ValueBulk(SubSeq(value.v, 1, Len(value.v) - 1)))
      [] value.t = "Status" -> Append(values, StatusResult(value.v))

RECURSIVE append_shallow(_, _)
\* append as it would be if an array inside an array were skipped instead of
\* descended into.
append_shallow(values, value) ==
    CASE value.t \in {"Nil", "Okay"} -> values
      [] value.t = "Int" -> Append(values, Int64(value.v))
      [] value.t = "Data" -> Append(values, Binary(value.v))
      [] value.t = "Bulk" ->
            IF value.v = <<>> THEN values
            ELSE append_shallow(IF Head(value.v).t = "Bulk" THEN values
                                ELSE append_shallow(values, Head(value.v)),
                                ValueBulk(Tail(value.v)))
      [] value.t = "Status" -> Append(values, StatusResult(value.v))

RECURSIVE append_status_as_binary(_, _)
\* append as it would be if a status message were pushed as a byte string.
append_status_as_binary(values, value) ==
    CASE value.t \in {"Nil", "Okay"} -> values
      [] value.t = "Int" -> Append(values, Int64(value.v))
      [] value.t = "Data" -> Append(values, Binary(value.v))
      [] value.t = "Bulk" ->
            IF value.v = <<>> THEN values
            ELSE append_status_as_binary(append_status_as_binary(values, Head(value.v)),
                                         ValueBulk(Tail(value.v)))
      [] value.t = "Status" -> Append(values, Binary(value.v))

RECURSIVE append(_, _)
\* RedisResults::from_redis_value::append: values with value's leaves pushed.
append(values, value) ==
    CASE value.t \in {"Nil", "Okay"} -> values
      [] value.t = "Int" -> Append(values, Int64(value.v))
      [] value.t = "Data" -> Append(values, Binary(value.v))
      [] value.t = "Bulk" ->
            IF value.v = <<>> THEN values
            ELSE append(append(values, Head(value.v)), ValueBulk(Tail(value.v)))
      [] value.t = "Status" -> Append(values, StatusResult(value.v))

from_redis_value(value) == append(<<>>, value)

\* Option<Vec<u8>>
None == [some |-> FALSE, v |-> <<>>]

Some(v) == [some |-> TRUE, v |-> v]

\* The counts of v2 del, sadd and srem are u32, those of v1 are i64.
U32Bits == 32

I64Bits == 64

RECURSIVE Bits(_, _)
\* The w low bits of n, the lowest first.
Bits(n, w) == IF w = 0 THEN <<>> ELSE <<n % 2>> \o Bits(n \div 2, w - 1)

\* A u32 is its 32 bits, the lowest first.
U32(n) == Bits(n, U32Bits)

\* The counts 1 and 2.
One == U32(1)

Two == U32(2)

\* A successful reply of the server to each command, as the client library
\* hands it to the handler.
SampleReply(cmd) ==
    CASE cmd = "PUBLISH" -> Unit
      [] cmd = "GET" -> Some(<<104, 105>>)
      [] cmd = "SET" -> Unit
      [] cmd = "INCRBY" -> 7
      [] cmd = "DEL" -> Two
      [] cmd = "SADD" -> Two
      [] cmd = "SMEMBERS" -> <<"a", "b">>
      [] cmd = "SREM" -> One
      [] OTHER -> ValueBulk(<<ValueInt(1), ValueBulk(<<ValueInt(2), ValueNil, ValueData(<<120>>)>>), ValueOkay>>)

\* What the transport answers to a command: the reply, or an error.
RepliesTo ==
    [cmd \in {"PUBLISH", "GET", "SET", "INCRBY", "DEL", "SADD", "SMEMBERS", "SREM", "EXECUTE"} |->
        {Ok(SampleReply(cmd))} \cup {Err(kind) : kind \in TransportErrors}]

Replies(cmd) == RepliesTo[cmd]

\* No command is sent: the transport is not asked.
NoReply == Err("none")

\* ------------------------------------------------------------ InstanceState
\* InstanceState::is_address_allowed
is_address_allowed(address) == check_url(address)

\* The outcome of a handler: its result, the table it leaves, the number of
\* transport connects it attempted and the commands it sent.
Outcome(result, t, connects, sent) ==
    [result |-> result, connections |-> t, connects |-> connects, sent |-> sent]

\* establish_connection as it would be if it stored the connection without
\* regard to the table's capacity.
establish_connection_unbounded(t, address, reachable, key) ==
    IF ~ClientOpenParses(address) THEN Outcome(Err(InvalidAddress), t, 0, <<>>)
    ELSE IF ~reachable THEN Outcome(Err(other_error(ConnectError)), t, 1, <<>>)
    ELSE Outcome(Ok(key), (key :> NewConnection(t)) @@ t, 1, <<>>)

\* establish_connection as it would be if it pushed one shared connection
\* instead of the one it has just established.
establish_connection_shared(t, address, reachable, key) ==
    IF ~ClientOpenParses(address) THEN Outcome(Err(InvalidAddress), t, 0, <<>>)
    ELSE IF ~reachable THEN Outcome(Err(other_error(ConnectError)), t, 1, <<>>)
    ELSE LET pushed == TablePush(t, key, 0)
         IN  IF pushed.tag = "Err" THEN Outcome(Err(TooManyConnections), t, 1, <<>>)
             ELSE Outcome(Ok(pushed.val.key), pushed.val.table, 1, <<>>)

\* establish_connection as it would be if a failed connect were mapped like a
\* failed parse.
establish_connection_invalid_on_connect(t, address, reachable, key) ==
    IF ~ClientOpenParses(address) THEN Outcome(Err(InvalidAddress), t, 0, <<>>)
    ELSE IF ~reachable THEN Outcome(Err(InvalidAddress), t, 1, <<>>)
    ELSE LET pushed == TablePush(t, key, NewConnection(t))
         IN  IF pushed.tag = "Err" THEN Outcome(Err(TooManyConnections), t, 1, <<>>)
             ELSE Outcome(Ok(pushed.val.key), pushed.val.table, 1, <<>>)

\* establish_connection as it would be if it looked at the table's capacity
\* before connecting.
establish_connection_capacity_first(t, address, reachable, key) ==
    IF ~ClientOpenParses(address) THEN Outcome(Err(InvalidAddress), t, 0, <<>>)
    ELSE IF TableFull(t) THEN Outcome(Err(TooManyConnections), t, 0, <<>>)
    ELSE IF ~reachable THEN Outcome(Err(other_error(ConnectError)), t, 1, <<>>)
    ELSE LET pushed == TablePush(t, key, NewConnection(t))
         IN  Outcome(Ok(pushed.val.key), pushed.val.table, 1, <<>>)

\* establish_connection as it would be if, the table being full, the new
\* connection took the place of one the table holds.
establish_connection_evicting(t, address, reachable, key) ==
    IF ~ClientOpenParses(address) THEN Outcome(Err(InvalidAddress), t, 0, <<>>)
    ELSE IF ~reachable THEN Outcome(Err(other_error(ConnectError)), t, 1, <<>>)
    ELSE LET pushed == TablePush(t, key, NewConnection(t))
         IN  IF pushed.tag = "Err"
             THEN LET evicted == CHOOSE k \in DOMAIN t : TRUE
                  IN  Outcome(Ok(evicted), [t EXCEPT ![evicted] = NewConnection(t)], 1, <<>>)
             ELSE Outcome(Ok(pushed.val.key), pushed.val.table, 1, <<>>)

\* InstanceState::establish_connection.  reachable: whether
\* get_async_connection succeeds; key: the key the table picks.
establish_connection(t, address, reachable, key) ==
    IF ~ClientOpenParses(address) THEN Outcome(Err(InvalidAddress), t, 0, <<>>)
    ELSE IF ~reachable THEN Outcome(Err(other_error(ConnectError)), t, 1, <<>>)
    ELSE LET pushed == TablePush(t, key, NewConnection(t))
         IN  IF pushed.tag = "Err" THEN Outcome(Err(TooManyConnections), t, 1, <<>>)
             ELSE Outcome(Ok(pushed.val.key), pushed.val.table, 1, <<>>)

\* get_conn as it would be if an unknown handle fell back to some live
\* connection.
get_conn_fallback(t, connection) ==
    IF connection \in DOMAIN t THEN Ok(t[connection])
    ELSE IF DOMAIN t # {} THEN Ok(t[CHOOSE k \in DOMAIN t : TRUE])
    ELSE Err(Other("could not find connection for resource"))

\* InstanceState::get_conn
get_conn(t, connection) ==
    LET found == TableGet(t, connection)
    IN  IF found.tag = "Err"
        THEN Err(Other("could not find connection for resource"))
        ELSE Ok(found.val)

\* ---------------------------------------------------- v2::HostConnection
\* One command on the wire of one connection.
Send(conn, cmd) == <<[conn |-> conn, cmd |-> cmd]>>

\* open as it would be if the connection were established before the gate's
\* answer is looked at.
open_connects_first(t, address, reachable, key) ==
    LET allowed == is_address_allowed(address)
        est == establish_connection(t, address, reachable, key)
    IN  IF allowed.tag = "Err"
        THEN Outcome(Err(Other(to_string(allowed.err))), est.connections, est.connects, <<>>)
        ELSE IF ~allowed.val
        THEN Outcome(Err(InvalidAddress), est.connections, est.connects, <<>>)
        ELSE est

\* open as it would be if a failed gate check let the address through.
open_gate_failure_allows(t, address, reachable, key) ==
    LET allowed == is_address_allowed(address)
    IN  IF allowed.tag = "Ok" /\ ~allowed.val THEN Outcome(Err(InvalidAddress), t, 0, <<>>)
        ELSE establish_connection(t, address, reachable, key)

\* v2::HostConnection::open
open(t, address, reachable, key) ==
    LET allowed == is_address_allowed(address)
    IN  IF allowed.tag = "Err" THEN Outcome(Err(Other(to_string(allowed.err))), t, 0, <<>>)
        ELSE IF ~allowed.val THEN Outcome(Err(InvalidAddress), t, 0, <<>>)
        ELSE establish_connection(t, address, reachable, key)

\* v2::HostConnection::publish
publish(t, connection, reply) ==
    LET conn == get_conn(t, connection)
    IN  IF conn.tag = "Err" THEN Outcome(Err(other_error(conn.err)), t, 0, <<>>)
        ELSE IF reply.tag = "Err"
        THEN Outcome(Err(other_error(RedisError(reply.err))), t, 0, Send(conn.val, "PUBLISH"))
        ELSE Outcome(Ok(Unit), t, 0, Send(conn.val, "PUBLISH"))

\* get as it would be if an absent value were handed on as an empty one.
get_absent_as_empty(t, connection, reply) ==
    LET conn == get_conn(t, connection)
    IN  IF conn.tag = "Err" THEN Outcome(Err(other_error(conn.err)), t, 0, <<>>)
        ELSE IF reply.tag = "Err"
        THEN Outcome(Err(other_error(RedisError(reply.err))), t, 0, Send(conn.val, "GET"))
        ELSE Outcome(Ok(IF reply.val.some THEN reply.val ELSE Some(<<>>)), t, 0,
                     Send(conn.val, "GET"))

\* v2::HostConnection::get
get(t, connection, reply) ==
    LET conn == get_conn(t, connection)
    IN  IF conn.tag = "Err" THEN Outcome(Err(other_error(conn.err)), t, 0, <<>>)
        ELSE IF reply.tag = "Err"
        THEN Outcome(Err(other_error(RedisError(reply.err))), t, 0, Send(conn.val, "GET"))
        ELSE Outcome(Ok(reply.val), t, 0, Send(conn.val, "GET"))

\* v2::HostConnection::set
set(t, connection, reply) ==
    LET conn == get_conn(t, connection)
    IN  IF conn.tag = "Err" THEN Outcome(Err(other_error(conn.err)), t, 0, <<>>)
        ELSE IF reply.tag = "Err"
        THEN Outcome(Err(other_error(RedisError(reply.err))), t, 0, Send(conn.val, "SET"))
        ELSE Outcome(Ok(Unit), t, 0, Send(conn.val, "SET"))

\* v2::HostConnection::incr
incr(t, connection, reply) ==
    LET conn == get_conn(t, connection)
    IN  IF conn.tag = "Err" THEN Outcome(Err(other_error(conn.err)), t, 0, <<>>)
        ELSE IF reply.tag = "Err"
        THEN Outcome(Err(other_error(RedisError(reply.err))), t, 0, Send(conn.val, "INCRBY"))
        ELSE Outcome(Ok(reply.val), t, 0, Send(conn.val, "INCRBY"))

\* del as it would be if it reported whether any key was removed instead of
\* how many.
del_reports_any(t, connection, reply) ==
    LET conn == get_conn(t, connection)
    IN  IF conn.tag = "Err" THEN Outcome(Err(other_error(conn.err)), t, 0, <<>>)
        ELSE IF reply.tag = "Err"
        THEN Outcome(Err(other_error(RedisError(reply.err))), t, 0, Send(conn.val, "DEL"))
        ELSE Outcome(Ok(IF reply.val = U32(0) THEN U32(0) ELSE U32(1)), t, 0,
                     Send(conn.val, "DEL"))

\* v2::HostConnection::del
del(t, connection, reply) ==
    LET conn == get_conn(t, connection)
    IN  IF conn.tag = "Err" THEN Outcome(Err(other_error(conn.err)), t, 0, <<>>)
        ELSE IF reply.tag = "Err"
        THEN Outcome(Err(other_error(RedisError(reply.err))), t, 0, Send(conn.val, "DEL"))
        ELSE Outcome(Ok(reply.val), t, 0, Send(conn.val, "DEL"))

\* sadd as it would be if it mapped its errors like the other commands.
sadd_folds_type_error(t, connection, reply) ==
    LET conn == get_conn(t, connection)
    IN  IF conn.tag = "Err" THEN Outcome(Err(other_error(conn.err)), t, 0, <<>>)
        ELSE IF reply.tag = "Err"
        THEN Outcome(Err(other_error(RedisError(reply.err))), t, 0, Send(conn.val, "SADD"))
        ELSE Outcome(Ok(reply.val), t, 0, Send(conn.val, "SADD"))

\* v2::HostConnection::sadd
sadd(t, connection, reply) ==
    LET conn == get_conn(t, connection)
    IN  IF conn.tag = "Err" THEN Outcome(Err(other_error(conn.err)), t, 0, <<>>)
        ELSE IF reply.tag = "Err"
        THEN Outcome(Err(IF RedisError(reply.err).kind = "TypeError"
                         THEN TypeError
                         ELSE Other(to_string(RedisError(reply.err)))), t, 0, Send(conn.val, "SADD"))
        ELSE Outcome(Ok(reply.val), t, 0, Send(conn.val, "SADD"))

\* v2::HostConnection::smembers
smembers(t, connection, reply) ==
    LET conn == get_conn(t, connection)
    IN  IF conn.tag = "Err" THEN Outcome(Err(other_error(conn.err)), t, 0, <<>>)
        ELSE IF reply.tag = "Err"
        THEN Outcome(Err(other_error(RedisError(reply.err))), t, 0, Send(conn.val, "SMEMBERS"))
        ELSE Outcome(Ok(reply.val), t, 0, Send(conn.val, "SMEMBERS"))

\* v2::HostConnection::srem
srem(t, connection, reply) ==
    LET conn == get_conn(t, connection)
    IN  IF conn.tag = "Err" THEN Outcome(Err(other_error(conn.err)), t, 0, <<>>)
        ELSE IF reply.tag = "Err"
        THEN Outcome(Err(other_error(RedisError(reply.err))), t, 0, Send(conn.val, "SREM"))
        ELSE Outcome(Ok(reply.val), t, 0, Send(conn.val, "SREM"))

\* execute as it would be if a connection whose command failed were taken out
\* of the table.
execute_closes_on_error(t, connection, reply) ==
    LET conn == get_conn(t, connection)
    IN  IF conn.tag = "Err" THEN Outcome(Err(conn.err), t, 0, <<>>)
        ELSE IF reply.tag = "Err"
        THEN Outcome(Err(other_error(RedisError(reply.err))), TableRemove(t, connection), 0,
                     Send(conn.val, "EXECUTE"))
        ELSE Outcome(Ok(from_redis_value(reply.val)), t, 0, Send(conn.val, "EXECUTE"))

\* v2::HostConnection::execute
execute(t, connection, reply) ==
    LET conn == get_conn(t, connection)
    IN  IF conn.tag = "Err" THEN Outcome(Err(conn.err), t, 0, <<>>)
        ELSE IF reply.tag = "Err"
        THEN Outcome(Err(other_error(RedisError(reply.err))), t, 0, Send(conn.val, "EXECUTE"))
        ELSE Outcome(Ok(from_redis_value(reply.val)), t, 0, Send(conn.val, "EXECUTE"))

\* drop as it would be if it left the entry in the table.
drop_keeps_entry(t, connection) == Outcome(Ok(Unit), t, 0, <<>>)

\* drop as it would be if it reported a handle that is not live.
drop_rejects_unknown(t, connection) ==
    IF connection \in DOMAIN t THEN Outcome(Ok(Unit), TableRemove(t, connection), 0, <<>>)
    ELSE Outcome(Err(Other("could not find connection for resource")), t, 0, <<>>)

\* v2::HostConnection::drop
drop(t, connection) == Outcome(Ok(Unit), TableRemove(t, connection), 0, <<>>)

\* ------------------------------------------------------------- v1::Host
\* <Self as v2::HostConnection>::$name: the v2 handler a v1 operation names.
HostConnection(name, t, connection, reply) ==
    CASE name = "publish" -> publish(t, connection, reply)
      [] name = "get" -> get(t, connection, reply)
      [] name = "set" -> set(t, connection, reply)
      [] name = "incr" -> incr(t, connection, reply)
      [] name = "del" -> del(t, connection, reply)
      [] name = "sadd" -> sadd(t, connection, reply)
      [] name = "smembers" -> smembers(t, connection, reply)
      [] name = "srem" -> srem(t, connection, reply)
      [] name = "execute" -> execute(t, connection, reply)

\* delegate! as it would be if a denial by the gate were not looked at.
delegate_ignores_denial(t, name, address, reachable, key, reply) ==
    LET allowed == is_address_allowed(address)
    IN  IF allowed.tag = "Err" THEN Outcome(Err(V1Error), t, 0, <<>>)
        ELSE LET est == establish_connection(t, address, reachable, key)
             IN  IF est.result.tag = "Err"
                 THEN Outcome(Err(V1Error), est.connections, est.connects, <<>>)
                 ELSE LET out == HostConnection(name, est.connections, est.result.val, reply)
                      IN  Outcome(IF out.result.tag = "Err" THEN Err(V1Error) ELSE out.result,
                                  out.connections, est.connects + out.connects, out.sent)

\* delegate! as it would be if the v2 handler's error were handed on in place
\* of v1::Error::Error.
delegate_hands_on_error(t, name, address, reachable, key, reply) ==
    LET allowed == is_address_allowed(address)
    IN  IF allowed.tag = "Err" THEN Outcome(Err(V1Error), t, 0, <<>>)
        ELSE IF ~allowed.val THEN Outcome(Err(V1Error), t, 0, <<>>)
        ELSE LET est == establish_connection(t, address, reachable, key)
             IN  IF est.result.tag = "Err"
                 THEN Outcome(Err(V1Error), est.connections, est.connects, <<>>)
                 ELSE LET out == HostConnection(name, est.connections, est.result.val, reply)
                      IN  Outcome(out.result, out.connections,
                                  est.connects + out.connects, out.sent)

\* delegate! as it would be if the connection it opened were removed from the
\* table once the v2 handler has returned.
delegate_closes_connection(t, name, address, reachable, key, reply) ==
    LET allowed == is_address_allowed(address)
    IN  IF allowed.tag = "Err" THEN Outcome(Err(V1Error), t, 0, <<>>)
        ELSE IF ~allowed.val THEN Outcome(Err(V1Error), t, 0, <<>>)
        ELSE LET est == establish_connection(t, address, reachable, key)
             IN  IF est.result.tag = "Err"
                 THEN Outcome(Err(V1Error), est.connections, est.connects, <<>>)
                 ELSE LET out == HostConnection(name, est.connections, est.result.val, reply)
                      IN  Outcome(IF out.result.tag = "Err" THEN Err(V1Error) ELSE out.result,
                                  TableRemove(out.connections, est.result.val),
                                  est.connects + out.connects, out.sent)

\* The delegate! macro: gate, establish_connection, then the v2 handler $name
\* on the connection just opened, every error mapped to v1::Error::Error.
delegate(t, name, address, reachable, key, reply) ==
    LET allowed == is_address_allowed(address)
    IN  IF allowed.tag = "Err" THEN Outcome(Err(V1Error), t, 0, <<>>)
        ELSE IF ~allowed.val THEN Outcome(Err(V1Error), t, 0, <<>>)
        ELSE LET est == establish_connection(t, address, reachable, key)
             IN  IF est.result.tag = "Err"
                 THEN Outcome(Err(V1Error), est.connections, est.connects, <<>>)
                 ELSE LET out == HostConnection(name, est.connections, est.result.val, reply)
                      IN  Outcome(IF out.result.tag = "Err" THEN Err(V1Error) ELSE out.result,
                                  out.connections, est.connects + out.connects, out.sent)

\* Result::map: mapped is the value of the closure on out's Ok value.
MapOk(out, mapped) ==
    IF out.result.tag = "Ok" THEN [out EXCEPT !.result = Ok(mapped)] ELSE out

\* Option::unwrap_or_default on Option<Vec<u8>>
unwrap_or_default(v) == IF v.some THEN v.v ELSE <<>>

\* `v as i64` as it would be if the count were taken for a signed integer
\* and its top bit copied into the bits that are added.
as_i64_sign_extending(v) == v \o [i \in 1 .. (I64Bits - Len(v)) |-> v[Len(v)]]

\* `v as i64` as it would be if the count were narrowed to its low 16 bits
\* on the way.
as_i64_narrowing(v) == [i \in 1 .. I64Bits |-> IF i <= 16 /\ i \in DOMAIN v THEN v[i] ELSE 0]

\* `v as i64` of a u32: the source is unsigned, so the 32 bits that are added
\* are zero.
as_i64(v) == v \o [i \in 1 .. (I64Bits - Len(v)) |-> 0]

\* From<v2::RedisResult> for v1::RedisResult: variant by variant.
into_v1(results) == [i \in DOMAIN results |-> [t |-> results[i].t, v |-> results[i].v]]

\* v1::Host::publish
v1_publish(t, address, reachable, key, reply) ==
    delegate(t, "publish", address, reachable, key, reply)

\* v1 get as it would be if an absent value were reported as the v1 error.
v1_get_absent_is_error(t, address, reachable, key, reply) ==
    LET out == delegate(t, "get", address, reachable, key, reply)
    IN  IF out.result.tag = "Ok" /\ ~out.result.val.some
        THEN [out EXCEPT !.result = Err(V1Error)]
        ELSE MapOk(out, unwrap_or_default(out.result.val))

\* v1::Host::get
v1_get(t, address, reachable, key, reply) ==
    LET out == delegate(t, "get", address, reachable, key, reply)
    IN  MapOk(out, unwrap_or_default(out.result.val))

\* v1::Host::set
v1_set(t, address, reachable, key, reply) ==
    delegate(t, "set", address, reachable, key, reply)

\* v1::Host::incr
v1_incr(t, address, reachable, key, reply) ==
    delegate(t, "incr", address, reachable, key, reply)

\* v1::Host::del
v1_del(t, address, reachable, key, reply) ==
    LET out == delegate(t, "del", address, reachable, key, reply)
    IN  MapOk(out, as_i64(out.result.val))

\* v1::Host::sadd
v1_sadd(t, address, reachable, key, reply) ==
    LET out == delegate(t, "sadd", address, reachable, key, reply)
    IN  MapOk(out, as_i64(out.result.val))

\* v1::Host::smembers
v1_smembers(t, address, reachable, key, reply) ==
    delegate(t, "smembers", address, reachable, key, reply)

\* v1::Host::srem
v1_srem(t, address, reachable, key, reply) ==
    LET out == delegate(t, "srem", address, reachable, key, reply)
    IN  MapOk(out, as_i64(out.result.val))

\* v1::Host::execute
v1_execute(t, address, reachable, key, reply) ==
    LET out == delegate(t, "execute", address, reachable, key, reply)
    IN  MapOk(out, into_v1(out.result.val))

\* ------------------------------------------------------- the state machine
\* connections: InstanceState.connections, the table.
\* last: the call that returned last: its arguments, the environment's
\*       answers, its result, the connects it attempted, the commands it
\*       sent, and the table as it was when the call started.
\* phase: how far the run is through "table full, one handle closed, one
\*       open succeeded, the next open refused" (a history of the calls).
\* closed: the handles that were live and have been closed since (a history
\*       of the calls).
\* store: the keys the server holds and their values, where the server's
\*       replies are computed from them; where the replies are drawn from
\*       Replies, the store is left out and stays empty.
VARIABLES connections, last, phase, closed, store, run

vars == <<connections, last, phase, closed, store, run>>

EmptyTable == [k \in {} |-> 0]

EmptyStore == [k \in {} |-> <<>>]

\* What a step of an upgrade has not got to: a try_install that was not
\* called, a result that is not there yet.
NotAttempted == [tag |-> "NotAttempted"]

\* No `plugins upgrade --all` has been started.
NoRun == [state |-> "idle", count |-> 0, yes_to_all |-> FALSE, trace |-> <<>>,
          result |-> NotAttempted]

Init ==
    /\ connections = EmptyTable
    /\ last = [api |-> "none", op |-> "init", address |-> "", handle |-> NoHandle,
               reachable |-> FALSE, reply |-> NoReply, result |-> Ok(Unit),
               connects |-> 0, sent |-> <<>>, before |-> EmptyTable,
               args |-> <<>>, held |-> EmptyStore]
    /\ phase = "idle"
    /\ closed = {}
    /\ store = EmptyStore
    /\ run = NoRun

\* The history of the calls that phase keeps.
NextPhase(ph, call, after) ==
    LET n == Cardinality(DOMAIN call.before)
        m == Cardinality(DOMAIN after)
    IN  CASE call.op = "drop" /\ m < n ->
                IF n = Capacity THEN "freed" ELSE "idle"
          [] m > n -> IF ph = "freed" THEN "refilled" ELSE "idle"
          [] call.api = "v2" /\ call.op = "open" /\ call.result = Err(TooManyConnections) ->
                IF ph \in {"refilled", "refused"} THEN "refused" ELSE "idle"
          [] OTHER -> ph

\* A call returns: the table is what the handler left, and the call is
\* recorded with the arguments that went to the server and the store as it was.
Recorded(api, op, address, handle, reachable, reply, out, args) ==
    /\ connections' = out.connections
    /\ last' = [api |-> api, op |-> op, address |-> address, handle |-> handle,
                reachable |-> reachable, reply |-> reply, result |-> out.result,
                connects |-> out.connects, sent |-> out.sent, before |-> connections,
                args |-> args, held |-> store]
    /\ phase' = NextPhase(phase, last', out.connections)
    /\ closed' = (closed \cup DOMAIN connections) \ DOMAIN out.connections
    /\ run' = run

\* A call whose reply is drawn from Replies returns.
Returned(api, op, address, handle, reachable, reply, out) ==
    /\ Recorded(api, op, address, handle, reachable, reply, out, <<>>)
    /\ store' = store

V2Open(address, reachable, key) ==
    Returned("v2", "open", address, NoHandle, reachable, NoReply,
             open(connections, address, reachable, key))

V2Drop(connection) ==
    Returned("v2", "drop", "", connection, FALSE, NoReply, drop(connections, connection))

V2Publish(connection, reply) ==
    Returned("v2", "publish", "", connection, FALSE, reply, publish(connections, connection, reply))

V2Get(connection, reply) ==
    Returned("v2", "get", "", connection, FALSE, reply, get(connections, connection, reply))

V2Set(connection, reply) ==
    Returned("v2", "set", "", connection, FALSE, reply, set(connections, connection, reply))

V2Incr(connection, reply) ==
    Returned("v2", "incr", "", connection, FALSE, reply, incr(connections, connection, reply))

V2Del(connection, reply) ==
    Returned("v2", "del", "", connection, FALSE, reply, del(connections, connection, reply))

V2Sadd(connection, reply) ==
    Returned("v2", "sadd", "", connection, FALSE, reply, sadd(connections, connection, reply))

V2Smembers(connection, reply) ==
    Returned("v2", "smembers", "", connection, FALSE, reply, smembers(connections, connection, reply))

V2Srem(connection, reply) ==
    Returned("v2", "srem", "", connection, FALSE, reply, srem(connections, connection, reply))

V2Execute(connection, reply) ==
    Returned("v2", "execute", "", connection, FALSE, reply, execute(connections, connection, reply))

V1Publish(address, reachable, key, reply) ==
    Returned("v1", "publish", address, NoHandle, reachable, reply,
             v1_publish(connections, address, reachable, key, reply))

V1Get(address, reachable, key, reply) ==
    Returned("v1", "get", address, NoHandle, reachable, reply,
             v1_get(connections, address, reachable, key, reply))

V1Set(address, reachable, key, reply) ==
    Returned("v1", "set", address, NoHandle, reachable, reply,
             v1_set(connections, address, reachable, key, reply))

V1Incr(address, reachable, key, reply) ==
    Returned("v1", "incr", address, NoHandle, reachable, reply,
             v1_incr(connections, address, reachable, key, reply))

V1Del(address, reachable, key, reply) ==
    Returned("v1", "del", address, NoHandle, reachable, reply,
             v1_del(connections, address, reachable, key, reply))

V1Sadd(address, reachable, key, reply) ==
    Returned("v1", "sadd", address, NoHandle, reachable, reply,
             v1_sadd(connections, address, reachable, key, reply))

V1Smembers(address, reachable, key, reply) ==
    Returned("v1", "smembers", address, NoHandle, reachable, reply,
             v1_smembers(connections, address, reachable, key, reply))

V1Srem(address, reachable, key, reply) ==
    Returned("v1", "srem", address, NoHandle, reachable, reply,
             v1_srem(connections, address, reachable, key, reply))

V1Execute(address, reachable, key, reply) ==
    Returned("v1", "execute", address, NoHandle, reachable, reply,
             v1_execute(connections, address, reachable, key, reply))

\* The environment's answers are drawn where the handler asks for them: the
\* connect outcome for an address that passes the gate and parses, the table's
\* key for a connection that is pushed, the transport's reply for a command
\* that is sent.
ReachableChoices(address) ==
    IF is_address_allowed(address) = Ok(TRUE) /\ ClientOpenParses(address)
    THEN BOOLEAN ELSE {FALSE}

KeyChoices(reachable) ==
    IF reachable /\ ~TableFull(connections) THEN FreeKeys(connections)
    ELSE {CHOOSE k \in FreeKeys(connections) : TRUE}

ReplyChoices(connection, cmd) ==
    IF connection \in DOMAIN connections THEN Replies(cmd) ELSE {NoReply}

ReplyChoicesV1(reachable, cmd) ==
    IF reachable /\ ~TableFull(connections) THEN Replies(cmd) ELSE {NoReply}

Next ==
    \/ \E address \in Addresses : \E reachable \in ReachableChoices(address) :
         \E key \in KeyChoices(reachable) : V2Open(address, reachable, key)
    \/ \E connection \in Handles : V2Drop(connection)
    \/ \E connection \in Handles : \E reply \in ReplyChoices(connection, "PUBLISH") :
         V2Publish(connection, reply)
    \/ \E connection \in Handles : \E reply \in ReplyChoices(connection, "GET") :
         V2Get(connection, reply)
    \/ \E connection \in Handles : \E reply \in ReplyChoices(connection, "SET") :
         V2Set(connection, reply)
    \/ \E connection \in Handles : \E reply \in ReplyChoices(connection, "INCRBY") :
         V2Incr(connection, reply)
    \/ \E connection \in Handles : \E reply \in ReplyChoices(connection, "DEL") :
         V2Del(connection, reply)
    \/ \E connection \in Handles : \E reply \in ReplyChoices(connection, "SADD") :
         V2Sadd(connection, reply)
    \/ \E connection \in Handles : \E reply \in ReplyChoices(connection, "SMEMBERS") :
         V2Smembers(connection, reply)
    \/ \E connection \in Handles : \E reply \in ReplyChoices(connection, "SREM") :
         V2Srem(connection, reply)
    \/ \E connection \in Handles : \E reply \in ReplyChoices(connection, "EXECUTE") :
         V2Execute(connection, reply)
    \/ \E address \in Addresses : \E reachable \in ReachableChoices(address) :
         \E key \in KeyChoices(reachable) : \E reply \in ReplyChoicesV1(reachable, "PUBLISH") :
           V1Publish(address, reachable, key, reply)
    \/ \E address \in Addresses : \E reachable \in ReachableChoices(address) :
         \E key \in KeyChoices(reachable) : \E reply \in ReplyChoicesV1(reachable, "GET") :
           V1Get(address, reachable, key, reply)
    \/ \E address \in Addresses : \E reachable \in ReachableChoices(address) :
         \E key \in KeyChoices(reachable) : \E reply \in ReplyChoicesV1(reachable, "SET") :
           V1Set(address, reachable, key, reply)
    \/ \E address \in Addresses : \E reachable \in ReachableChoices(address) :
         \E key \in KeyChoices(reachable) : \E reply \in ReplyChoicesV1(reachable, "INCRBY") :
           V1Incr(address, reachable, key, reply)
    \/ \E address \in Addresses : \E reachable \in ReachableChoices(address) :
         \E key \in KeyChoices(reachable) : \E reply \in ReplyChoicesV1(reachable, "DEL") :
           V1Del(address, reachable, key, reply)
    \/ \E address \in Addresses : \E reachable \in ReachableChoices(address) :
         \E key \in KeyChoices(reachable) : \E reply \in ReplyChoicesV1(reachable, "SADD") :
           V1Sadd(address, reachable, key, reply)
    \/ \E address \in Addresses : \E reachable \in ReachableChoices(address) :
         \E key \in KeyChoices(reachable) : \E reply \in ReplyChoicesV1(reachable, "SMEMBERS") :
           V1Smembers(address, reachable, key, reply)
    \/ \E address \in Addresses : \E reachable \in ReachableChoices(address) :
         \E key \in KeyChoices(reachable) : \E reply \in ReplyChoicesV1(reachable, "SREM") :
           V1Srem(address, reachable, key, reply)
    \/ \E address \in Addresses : \E reachable \in ReachableChoices(address) :
         \E key \in KeyChoices(reachable) : \E reply \in ReplyChoicesV1(reachable, "EXECUTE") :
           V1Execute(address, reachable, key, reply)

Spec == Init /\ [][Next]_vars

\* ---------------------------------------------------------------- claims
CommandOps == {"publish", "get", "set", "incr", "del", "sadd", "smembers", "srem", "execute"}

Size(t) == Cardinality(DOMAIN t)

\* The last call was the v2 operation op.
V2Call(op) == last.api = "v2" /\ last.op = op

\* The last call was one of the nine v2 commands.
V2Command == last.api = "v2" /\ last.op \in CommandOps

\* The last call was a v2 open whose address passed the gate and parsed and
\* whose transport connect succeeded.
V2OpenConnected ==
    /\ V2Call("open")
    /\ is_address_allowed(last.address) = Ok(TRUE)
    /\ ClientOpenParses(last.address)
    /\ last.reachable

\* C1: a handle returned by a successful open resolves to its live connection
\* on every later operation until that handle is closed: the returned handle
\* is live, every operation other than the close of a handle leaves it bound
\* to the same connection, and a command on it is sent on that connection;
\* after close(h), h is not in the table and resolving it (directly, or by a
\* command on a handle that was closed) fails with the unknown-handle error,
\* an Other.
C1_HandleResolvesUntilClosed ==
    /\ (V2Call("open") /\ last.result.tag = "Ok") =>
           get_conn(connections, last.result.val).tag = "Ok"
    /\ \A h \in DOMAIN last.before :
           ~(last.op = "drop" /\ last.handle = h) =>
               /\ h \in DOMAIN connections
               /\ connections[h] = last.before[h]
               /\ get_conn(connections, h) = Ok(last.before[h])
    /\ (V2Command /\ last.handle \in DOMAIN last.before) =>
           /\ Len(last.sent) = 1
           /\ last.sent[1].conn = last.before[last.handle]
    /\ V2Call("drop") =>
           /\ last.handle \notin DOMAIN connections
           /\ get_conn(connections, last.handle).tag = "Err"
           /\ get_conn(connections, last.handle).err.kind = "Other"
    /\ (V2Command /\ last.handle \in closed) =>
           /\ last.result.tag = "Err"
           /\ last.result.err.kind = "Other"

\* C1 witness: a command on a handle that an open returned and a close has
\* closed since has failed with Other.
C1_Witness ==
    /\ V2Command
    /\ last.handle \in closed
    /\ last.result.tag = "Err"
    /\ last.result.err.kind = "Other"

\* C2 as stated: with the table full, open fails with TooManyConnections and
\* leaves the table unchanged.
C2_Original ==
    (V2Call("open") /\ Size(last.before) = Capacity) =>
        /\ last.result = Err(TooManyConnections)
        /\ connections = last.before

\* C2 amended: the table never holds more than Capacity connections; with the
\* table full every open fails and leaves the table unchanged, and an open
\* whose address passes the gate and parses and whose connect succeeds fails
\* with TooManyConnections; such an open succeeds and adds one entry when the
\* table is not full; closing a live handle removes one entry; so after one
\* close from a full table exactly one open succeeds (the table is full again
\* once it has) before TooManyConnections is returned again.
C2_CapacityAmended ==
    /\ Size(connections) <= Capacity
    /\ (V2Call("open") /\ Size(last.before) = Capacity) =>
           /\ last.result.tag = "Err"
           /\ connections = last.before
    /\ (V2OpenConnected /\ Size(last.before) = Capacity) =>
           last.result = Err(TooManyConnections)
    /\ (V2OpenConnected /\ Size(last.before) < Capacity) =>
           /\ last.result.tag = "Ok"
           /\ Size(connections) = Size(last.before) + 1
    /\ (V2Call("open") /\ last.result = Err(TooManyConnections)) =>
           Size(last.before) = Capacity
    /\ (V2Call("drop") /\ last.handle \in DOMAIN last.before) =>
           Size(connections) = Size(last.before) - 1
    /\ phase = "freed" => Size(connections) = Capacity - 1
    /\ phase \in {"refilled", "refused"} => Size(connections) = Capacity

\* C2 witness: the table was full, one live handle was closed, one open
\* succeeded, and the open after it has been refused with TooManyConnections.
C2_Witness ==
    /\ phase = "refused"
    /\ V2Call("open")
    /\ last.result = Err(TooManyConnections)
    /\ connections = last.before

\* C3: distinct live handles refer to distinct connections, and a successful
\* open never returns a handle that was live when the call started.
C3_DistinctHandlesDistinctConnections ==
    /\ \A h1, h2 \in DOMAIN connections :
           h1 # h2 => connections[h1] # connections[h2]
    /\ (V2Call("open") /\ last.result.tag = "Ok") =>
           /\ last.result.val \notin DOMAIN last.before
           /\ connections[last.result.val] \notin Range(last.before)

\* C3 witness: with one handle live, an open has succeeded in the slot that
\* closing a handle of the full table freed.
C3_Witness ==
    /\ V2Call("open")
    /\ last.result.tag = "Ok"
    /\ phase = "refilled"
    /\ Size(connections) >= 2

\* C4: a v2 open on an address the gate denies returns InvalidAddress,
\* attempts no transport connect and adds no table entry; a v2 open attempts
\* a connect only after the gate has allowed the address.
C4_DeniedOpenNeverConnects ==
    /\ (V2Call("open") /\ is_address_allowed(last.address) = Ok(FALSE)) =>
           /\ last.result = Err(InvalidAddress)
           /\ last.connects = 0
           /\ connections = last.before
    /\ (V2Call("open") /\ last.connects > 0) =>
           is_address_allowed(last.address) = Ok(TRUE)

\* C4 witness: a v2 open on the denied address has returned, with a
\* connection live in the table.
C4_Witness ==
    /\ V2Call("open")
    /\ is_address_allowed(last.address) = Ok(FALSE)
    /\ Size(last.before) >= 1

\* The last call was a v1 operation.
V1Command == last.api = "v1" /\ last.op \in CommandOps

\* C5 as stated: a v2 open on a permitted address returns InvalidAddress when
\* the address fails to parse and when the transport connect fails.
C5_Original ==
    (/\ V2Call("open")
     /\ is_address_allowed(last.address) = Ok(TRUE)
     /\ (~ClientOpenParses(last.address) \/ ~last.reachable)) =>
        last.result = Err(InvalidAddress)

\* C5 amended: a v2 open on a permitted address returns InvalidAddress when
\* the address fails to parse (no connect is attempted), and Other carrying
\* the connect error's message when the transport connect fails; the table
\* is unchanged in both cases.
C5_ParseAndConnectFailureAmended ==
    /\ (/\ V2Call("open")
        /\ is_address_allowed(last.address) = Ok(TRUE)
        /\ ~ClientOpenParses(last.address)) =>
           /\ last.result = Err(InvalidAddress)
           /\ last.connects = 0
           /\ connections = last.before
    /\ (/\ V2Call("open")
        /\ is_address_allowed(last.address) = Ok(TRUE)
        /\ ClientOpenParses(last.address)
        /\ ~last.reachable) =>
           /\ last.result = Err(Other(ConnectError.msg))
           /\ last.connects = 1
           /\ connections = last.before

\* C5 witness: a v2 open on a permitted, well-formed address whose connect
\* failed has returned Other.
C5_Witness ==
    /\ V2Call("open")
    /\ is_address_allowed(last.address) = Ok(TRUE)
    /\ ClientOpenParses(last.address)
    /\ ~last.reachable
    /\ last.result.tag = "Err"
    /\ last.result.err.kind = "Other"

\* C6 as stated: when the gate check itself fails, a v2 open returns
\* InvalidAddress and a v1 operation returns the generic error, as when the
\* gate denies, and no connection is established.
C6_Original ==
    /\ (V2Call("open") /\ is_address_allowed(last.address).tag = "Err") =>
           /\ last.result = Err(InvalidAddress)
           /\ last.connects = 0
           /\ connections = last.before
    /\ (V1Command /\ is_address_allowed(last.address).tag = "Err") =>
           /\ last.result = Err(V1Error)
           /\ last.connects = 0
           /\ connections = last.before

\* C6 amended: when the gate check itself fails, a v2 open returns Other
\* carrying the gate's error message (a denial returns InvalidAddress), a v1
\* operation returns the generic error exactly as for a denial, and in both
\* cases no connect is attempted, no command is sent and the table is
\* unchanged.
C6_GateFailureAmended ==
    /\ (V2Call("open") /\ is_address_allowed(last.address).tag = "Err") =>
           /\ last.result = Err(Other(GateError.msg))
           /\ last.connects = 0
           /\ last.sent = <<>>
           /\ connections = last.before
    /\ (V1Command /\ is_address_allowed(last.address) # Ok(TRUE)) =>
           /\ last.result = Err(V1Error)
           /\ last.connects = 0
           /\ last.sent = <<>>
           /\ connections = last.before

\* C6 witness: a v2 open on the address whose gate check fails has returned
\* Other, with a connection live in the table.
C6_Witness ==
    /\ V2Call("open")
    /\ is_address_allowed(last.address).tag = "Err"
    /\ last.result.tag = "Err"
    /\ last.result.err.kind = "Other"
    /\ Size(last.before) >= 1

\* C7: every v2 command resolves its handle before it sends anything: with a
\* handle that is not live it returns Other, sends no command and leaves the
\* table unchanged; whatever it sends goes to the connection its handle is
\* bound to.
C7_UnknownHandleIsOther ==
    /\ (V2Command /\ last.handle \notin DOMAIN last.before) =>
           /\ last.result.tag = "Err"
           /\ last.result.err.kind = "Other"
           /\ last.sent = <<>>
           /\ last.connects = 0
           /\ connections = last.before
    /\ (V2Command /\ last.sent # <<>>) =>
           /\ last.handle \in DOMAIN last.before
           /\ \A i \in DOMAIN last.sent : last.sent[i].conn = last.before[last.handle]

\* C7 witness: a v2 command on a handle that is not live has returned, while
\* another handle is live.
C7_Witness ==
    /\ V2Command
    /\ last.handle \notin DOMAIN last.before
    /\ Size(last.before) >= 1

\* C8: drop always returns success; on a handle that is not live (a second
\* close of the same handle included) it leaves the table as it was; on a
\* live handle it removes that entry and no other.
C8_DropIsSafe ==
    V2Call("drop") =>
        /\ last.result = Ok(Unit)
        /\ DOMAIN connections = DOMAIN last.before \ {last.handle}
        /\ \A k \in DOMAIN connections : connections[k] = last.before[k]
        /\ last.handle \notin DOMAIN last.before => connections = last.before

\* C8 witness: a handle that was closed while live has been closed again,
\* while another handle is live.
C8_Witness ==
    /\ V2Call("drop")
    /\ last.handle \in closed
    /\ last.handle \notin DOMAIN last.before
    /\ Size(connections) >= 1

\* C9: sadd on a live handle returns TypeError exactly when the transport
\* reports an error of kind TypeError, and Other carrying the transport's
\* message for every other transport error.
C9_SaddDiscriminatesTypeError ==
    (V2Call("sadd") /\ last.handle \in DOMAIN last.before) =>
        /\ (last.result = Err(TypeError)) <=>
               (last.reply \in {Err(kind) : kind \in TransportErrors} /\ RedisError(last.reply.err).kind = "TypeError")
        /\ (last.reply \in {Err(kind) : kind \in TransportErrors} /\ RedisError(last.reply.err).kind # "TypeError") =>
               last.result = Err(Other(RedisError(last.reply.err).msg))
        /\ last.reply.tag = "Ok" => last.result.tag = "Ok"

\* C9 witness: sadd on a live handle has returned TypeError.
C9_Witness ==
    /\ V2Call("sadd")
    /\ last.handle \in DOMAIN last.before
    /\ last.reply = Err("TypeError")
    /\ last.result = Err(TypeError)

\* C10: a v2 command other than sadd returns every transport error, a type
\* mismatch included, as Other carrying the transport's message, and every
\* error it returns is an Other.
C10_OtherCommandsFoldErrors ==
    (V2Command /\ last.op # "sadd") =>
        /\ last.result.tag = "Err" => last.result.err.kind = "Other"
        /\ (last.handle \in DOMAIN last.before /\ last.reply \in {Err(kind) : kind \in TransportErrors}) =>
               last.result = Err(Other(RedisError(last.reply.err).msg))

\* C10 witness: a v2 command other than sadd, on a live handle, has returned
\* Other for a transport error of kind TypeError.
C10_Witness ==
    /\ V2Command
    /\ last.op # "sadd"
    /\ last.handle \in DOMAIN last.before
    /\ last.reply = Err("TypeError")
    /\ last.result.tag = "Err"
    /\ last.result.err.kind = "Other"


\* ------------------------------------------- the replies of execute, flattened
\* The most nodes (scalars and arrays) of a reply that is drawn.
MaxNodes == 5

\* One reply of each kind that is not an array.
Scalars == {ValueNil, ValueOkay, ValueInt(1), ValueData(<<120>>), ValueStatus("PONG")}

RECURSIVE ValuesOfSize(_), ItemsOfSize(_)
\* The replies of n nodes.
ValuesOfSize(n) ==
    (IF n = 1 THEN Scalars ELSE {}) \cup {ValueBulk(items) : items \in ItemsOfSize(n - 1)}

\* The sequences of replies of n nodes in all.
ItemsOfSize(n) ==
    IF n = 0 THEN {<<>>}
    ELSE UNION {{<<value>> \o rest : value \in ValuesOfSize(k), rest \in ItemsOfSize(n - k)} :
                k \in 1 .. n}

\* The replies the server gives to an execute: every reply of at most nodes
\* nodes, and [1, [2, nil, "x"], OK].
ReplyValues(nodes) == UNION {ValuesOfSize(n) : n \in 1 .. nodes} \cup {SampleReply("EXECUTE")}

\* An instance opens one connection, and one execute on a handle is answered
\* by a reply.
FlatOpen == connections = EmptyTable /\ V2Open("redis://allowed", TRUE, 0)

FlatExecute ==
    /\ last.op = "open"
    /\ \E value \in ReplyValues(MaxNodes) : \E connection \in Handles :
         V2Execute(connection, IF connection \in DOMAIN connections THEN Ok(value) ELSE NoReply)

FlatNext ==
    \/ FlatOpen
    \/ FlatExecute

SpecFlat == Init /\ [][FlatNext]_vars

\* The last call was a v2 execute on a live handle that the server answered
\* with a reply value.
Flattened == V2Call("execute") /\ last.handle \in DOMAIN last.before /\ last.reply.tag = "Ok"

RECURSIVE LeafPaths(_)
\* The positions of the integers, byte strings and status messages of a reply:
\* the indices that lead to each from the top.
LeafPaths(value) ==
    CASE value.t \in {"Nil", "Okay"} -> {}
      [] value.t = "Bulk" ->
            UNION {{<<i>> \o path : path \in LeafPaths(value.v[i])} : i \in DOMAIN value.v}
      [] OTHER -> {<<>>}

RECURSIVE NodeAt(_, _)
NodeAt(value, path) ==
    IF path = <<>> THEN value ELSE NodeAt(value.v[Head(path)], Tail(path))

\* path p is met before path q in a depth-first walk from the left.
MetBefore(p, q) ==
    \E i \in DOMAIN p \cap DOMAIN q :
        p[i] < q[i] /\ \A j \in 1 .. (i - 1) : p[j] = q[j]

\* The result a leaf stands for: same kind, same payload.
SameLeaf(result, leaf) ==
    /\ result.t = (CASE leaf.t = "Int" -> "Int64" [] leaf.t = "Data" -> "Binary"
                     [] leaf.t = "Status" -> "Status")
    /\ result.v = leaf.v

\* C11: execute returns exactly the integer, byte-string and status-message
\* leaves of the reply, in depth-first left-to-right order: one result per
\* leaf, the leaf met n-th in the walk at position n, with the leaf's kind and
\* payload; nil and OK contribute nothing and the nesting is gone.
C11_FlattenYieldsLeavesInOrder ==
    Flattened =>
        LET value == last.reply.val
            paths == LeafPaths(value)
        IN  /\ last.result.tag = "Ok"
            /\ Len(last.result.val) = Cardinality(paths)
            /\ \A p \in paths :
                   SameLeaf(last.result.val[1 + Cardinality({q \in paths : MetBefore(q, p)})],
                            NodeAt(value, p))

\* C11 witness: [1, [2, nil, "x"], OK] came back as Integer 1, Integer 2,
\* Bytes "x".
C11_Witness ==
    /\ Flattened
    /\ last.reply.val = ValueBulk(<<ValueInt(1),
                                   ValueBulk(<<ValueInt(2), ValueNil, ValueData(<<120>>)>>),
                                   ValueOkay>>)
    /\ last.result = Ok(<<Int64(1), Int64(2), Binary(<<120>>)>>)

\* C12 as stated: a reply that is not an array flattens to exactly one result
\* of the same kind and payload.
C12_Original ==
    (Flattened /\ last.reply.val.t # "Bulk") =>
        /\ Len(last.result.val) = 1
        /\ SameLeaf(last.result.val[1], last.reply.val)

\* C12 amended: a reply that is a single integer, byte string or status
\* message flattens to exactly one result of the same kind and payload; a
\* reply that is a single nil or a single OK flattens to no result.
C12_ScalarAmended ==
    /\ (Flattened /\ last.reply.val.t \in {"Int", "Data", "Status"}) =>
           /\ last.result.tag = "Ok"
           /\ Len(last.result.val) = 1
           /\ SameLeaf(last.result.val[1], last.reply.val)
    /\ (Flattened /\ last.reply.val.t \in {"Nil", "Okay"}) => last.result = Ok(<<>>)

\* C12 witness: a status message came back as one status result.
C12_Witness ==
    /\ Flattened
    /\ last.reply.val = ValueStatus("PONG")
    /\ last.result = Ok(<<StatusResult("PONG")>>)

RECURSIVE HasLeaf(_)
\* The reply holds an integer, a byte string or a status message somewhere.
HasLeaf(value) ==
    CASE value.t \in {"Nil", "Okay"} -> FALSE
      [] value.t = "Bulk" -> \E i \in DOMAIN value.v : HasLeaf(value.v[i])
      [] OTHER -> TRUE

\* C13: an array whose only item is an array flattens to what the inner array
\* flattens to, and a reply made only of nil, OK and arrays of those (empty
\* arrays included) flattens to the empty list, with which execute succeeds.
C13_NestingAndEmptiesVanish ==
    Flattened =>
        LET value == last.reply.val
        IN  /\ (value.t = "Bulk" /\ Len(value.v) = 1 /\ value.v[1].t = "Bulk") =>
                   last.result = Ok(from_redis_value(value.v[1]))
            /\ ~HasLeaf(value) => last.result = Ok(<<>>)

\* C13 witness: [[x, y, z]] came back as the three results of [x, y, z].
C13_Witness ==
    /\ Flattened
    /\ last.reply.val.t = "Bulk"
    /\ Len(last.reply.val.v) = 1
    /\ last.reply.val.v[1].t = "Bulk"
    /\ Len(last.reply.val.v[1].v) = 3
    /\ Len(last.result.val) = 3

\* ------------------------------------------------------ the v1 operations
\* The last call was a v1 operation whose address passed the gate and parsed,
\* whose transport connect succeeded and whose connection went into the table.
V1Connected ==
    /\ V1Command
    /\ is_address_allowed(last.address) = Ok(TRUE)
    /\ ClientOpenParses(last.address)
    /\ last.reachable
    /\ ~TableFull(last.before)

\* C14: a v1 operation on an address the gate denies returns the one v1 error,
\* attempts no transport connect, adds no table entry and sends no command.
C14_DeniedLegacyCallIsInert ==
    (V1Command /\ is_address_allowed(last.address) = Ok(FALSE)) =>
        /\ last.result = Err(V1Error)
        /\ last.connects = 0
        /\ connections = last.before
        /\ last.sent = <<>>

\* C14 witness: a v1 operation on the denied address has returned the v1
\* error, with a connection live in the table.
C14_Witness ==
    /\ V1Command
    /\ is_address_allowed(last.address) = Ok(FALSE)
    /\ last.result = Err(V1Error)
    /\ Size(last.before) >= 1

\* legacy is what the v1 operation op makes of the v2 result modern: get turns
\* an absent value into the empty one, del, sadd and srem keep the count's
\* bits and add zero bits, execute keeps every result's kind and payload, the
\* others hand the result on.
LegacyResultOf(op, legacy, modern) ==
    CASE op = "get" -> legacy = (IF modern.some THEN modern.v ELSE <<>>)
      [] op \in {"del", "sadd", "srem"} ->
            /\ Len(legacy) = I64Bits
            /\ \A i \in DOMAIN legacy :
                   legacy[i] = (IF i \in DOMAIN modern THEN modern[i] ELSE 0)
      [] op = "execute" ->
            /\ Len(legacy) = Len(modern)
            /\ \A i \in DOMAIN legacy :
                   legacy[i].t = modern[i].t /\ legacy[i].v = modern[i].v
      [] OTHER -> legacy = modern

\* C15: a v1 operation has two kinds of outcome, success with the result of
\* the v2 operation of the same name on the connection it opened, or the one
\* v1 error: every failure (the gate's denial or error, a failed parse or
\* connect, a full table, any error of the v2 operation, sadd's TypeError
\* included) is that same error, and the call succeeds exactly when the v2
\* operation does.
C15_LegacyOutcomes ==
    V1Command =>
        /\ last.result.tag = "Err" => last.result = Err(V1Error)
        /\ ~V1Connected => last.result = Err(V1Error)
        /\ V1Connected =>
               LET handle == CHOOSE h \in DOMAIN connections : h \notin DOMAIN last.before
                   modern == HostConnection(last.op, connections, handle, last.reply).result
               IN  IF modern.tag = "Err" THEN last.result = Err(V1Error)
                   ELSE /\ last.result.tag = "Ok"
                        /\ LegacyResultOf(last.op, last.result.val, modern.val)

\* C15 witness: a v1 sadd whose command failed with a type error has returned
\* the one v1 error.
C15_Witness ==
    /\ V1Connected
    /\ last.op = "sadd"
    /\ last.reply = Err("TypeError")
    /\ last.result = Err(V1Error)

\* C16: a v1 operation never closes the connection it opened: when its
\* connect and its table insert succeeded, the table holds exactly one more
\* entry than before, whether the command succeeded or failed, and the
\* entries it had are as they were.
C16_LegacyCallKeepsItsConnection ==
    V1Connected =>
        /\ Size(connections) = Size(last.before) + 1
        /\ \A h \in DOMAIN last.before :
               h \in DOMAIN connections /\ connections[h] = last.before[h]

\* C16 witness: a v1 operation whose command failed has left its connection
\* in the table, next to one that was there.
C16_Witness ==
    /\ V1Connected
    /\ last.reply.tag = "Err"
    /\ Size(last.before) = 1
    /\ Size(connections) = 2

\* ------------------------------------------- the counts of del, sadd, srem
\* The most bits by which a count that is drawn differs from 0 or from 2^32 - 1.
MaxSetBits == 2

RECURSIVE BitSets(_)
\* The sets of at most k of the 32 bit positions.
BitSets(k) ==
    IF k = 0 THEN {{}}
    ELSE BitSets(k - 1) \cup
         UNION {{bits \cup {i} : bits \in BitSets(k - 1)} : i \in 1 .. U32Bits}

\* The counts the server answers with: the u32 with at most k bits set, and
\* those with at most k bits clear.
Counts(k) ==
    {[i \in 1 .. U32Bits |-> IF i \in bits THEN 1 ELSE 0] : bits \in BitSets(k)} \cup
    {[i \in 1 .. U32Bits |-> IF i \in bits THEN 0 ELSE 1] : bits \in BitSets(k)}

\* A v1 del, sadd or srem on an instance that holds no connection yet, the
\* server answering with a count.
CountedDel ==
    /\ connections = EmptyTable
    /\ \E count \in Counts(MaxSetBits) : V1Del("redis://allowed", TRUE, 0, Ok(count))

CountedSadd ==
    /\ connections = EmptyTable
    /\ \E count \in Counts(MaxSetBits) : V1Sadd("redis://allowed", TRUE, 0, Ok(count))

CountedSrem ==
    /\ connections = EmptyTable
    /\ \E count \in Counts(MaxSetBits) : V1Srem("redis://allowed", TRUE, 0, Ok(count))

CountsNext ==
    \/ CountedDel
    \/ CountedSadd
    \/ CountedSrem

SpecCounts == Init /\ [][CountsNext]_vars

\* The last call was a v1 del, sadd or srem that the server answered with a
\* count.
V1Counted == V1Connected /\ last.op \in {"del", "sadd", "srem"} /\ last.reply.tag = "Ok"

\* The count the v2 operation of the last call's name returns on the
\* connection the call opened.
ModernCount ==
    LET handle == CHOOSE h \in DOMAIN connections : h \notin DOMAIN last.before
    IN  HostConnection(last.op, connections, handle, last.reply).result.val

\* C17 as stated: the v1 count is the v2 count narrowed from the wider to the
\* narrower width: it has fewer bits than the v2 count and is its low bits.
C17_Original ==
    V1Counted =>
        /\ last.result.tag = "Ok"
        /\ Len(last.result.val) < Len(ModernCount)
        /\ last.result.val = SubSeq(ModernCount, 1, Len(last.result.val))

\* C17 amended: v1 del, sadd and srem return the v2 count, an unsigned 32-bit
\* integer, widened to a signed 64-bit integer by an unchecked cast: the 32
\* bits of the count are kept and the 32 bits above them are zero, so every
\* count, 2^31 and above included, comes back with its value, and none is
\* truncated, wrapped or rejected.
C17_CountIsWidenedAmended ==
    V1Counted =>
        /\ last.result.tag = "Ok"
        /\ Len(ModernCount) = 32
        /\ Len(last.result.val) = 64
        /\ SubSeq(last.result.val, 1, 32) = ModernCount
        /\ \A i \in 33 .. 64 : last.result.val[i] = 0

\* C17 witness: a v1 del has returned the count 2^32 - 1, all of its 32 bits
\* set.
C17_Witness ==
    /\ V1Counted
    /\ last.op = "del"
    /\ \A i \in 1 .. 32 : last.reply.val[i] = 1
    /\ last.result.tag = "Ok"
    /\ \A i \in 1 .. 32 : last.result.val[i] = 1

\* ---------------------------------------------------- the server's keys
\* The longest list of keys a del names.
MaxKeys == 2

Keys == {"k1", "k2"}

\* The values a key holds: the empty one and one that is not.
StoredValues == {<<>>, <<104, 105>>}

Stores == UNION {[held -> StoredValues] : held \in SUBSET Keys}

\* The lists of one or more keys.
KeyLists == UNION {[1 .. n -> Keys] : n \in 1 .. MaxKeys}

\* The server's reply to GET key, as the client library hands it over: the
\* value the key holds, or none.
ServerGet(s, key) == IF key \in DOMAIN s THEN Some(s[key]) ELSE None

\* The server after SET key value.
ServerSet(s, key, value) == [k \in DOMAIN s \cup {key} |-> IF k = key THEN value ELSE s[k]]

RECURSIVE ServerDel(_, _)
\* The server's reply to DEL keys and the store it is left with: each key in
\* turn is removed if it is held, and counted if it was.
ServerDel(s, keys) ==
    IF keys = <<>> THEN [count |-> 0, store |-> s]
    ELSE LET key == Head(keys)
             rest == ServerDel([k \in DOMAIN s \ {key} |-> s[k]], Tail(keys))
         IN  [count |-> rest.count + (IF key \in DOMAIN s THEN 1 ELSE 0),
              store |-> rest.store]

\* The instance opens connections to a server that holds some keys, and get,
\* set and del on a handle are answered by the server from what it holds.
StoreInit ==
    /\ connections = EmptyTable
    /\ last = [api |-> "none", op |-> "init", address |-> "", handle |-> NoHandle,
               reachable |-> FALSE, reply |-> NoReply, result |-> Ok(Unit),
               connects |-> 0, sent |-> <<>>, before |-> EmptyTable,
               args |-> <<>>, held |-> EmptyStore]
    /\ phase = "idle"
    /\ closed = {}
    /\ store \in Stores
    /\ run = NoRun

StoreOpen ==
    V2Open("redis://allowed", TRUE, CHOOSE key \in FreeKeys(connections) : TRUE)

StoreGet(connection, key) ==
    LET reply == IF connection \in DOMAIN connections
                 THEN Ok(ServerGet(store, key)) ELSE NoReply
        out == get(connections, connection, reply)
    IN  /\ Recorded("v2", "get", "", connection, FALSE, reply, out, <<key>>)
        /\ store' = store

StoreSet(connection, key, value) ==
    LET reply == IF connection \in DOMAIN connections THEN Ok(Unit) ELSE NoReply
        out == set(connections, connection, reply)
    IN  /\ Recorded("v2", "set", "", connection, FALSE, reply, out, <<key>>)
        /\ store' = IF out.sent # <<>> THEN ServerSet(store, key, value) ELSE store

StoreDel(connection, keys) ==
    LET served == ServerDel(store, keys)
        reply == IF connection \in DOMAIN connections
                 THEN Ok(U32(served.count)) ELSE NoReply
        out == del(connections, connection, reply)
    IN  /\ Recorded("v2", "del", "", connection, FALSE, reply, out, keys)
        /\ store' = IF out.sent # <<>> THEN served.store ELSE store

StoreV1Get(key) ==
    LET reply == IF TableFull(connections) THEN NoReply ELSE Ok(ServerGet(store, key))
        out == v1_get(connections, "redis://allowed", TRUE,
                      CHOOSE k \in FreeKeys(connections) : TRUE, reply)
    IN  /\ Recorded("v1", "get", "redis://allowed", NoHandle, TRUE, reply, out, <<key>>)
        /\ store' = store

StoreNext ==
    \/ StoreOpen
    \/ \E key \in Keys : StoreV1Get(key)
    \/ \E connection \in Handles : \E key \in Keys : StoreGet(connection, key)
    \/ \E connection \in Handles : \E key \in Keys : \E value \in StoredValues :
         StoreSet(connection, key, value)
    \/ \E connection \in Handles : \E keys \in KeyLists : StoreDel(connection, keys)

SpecStore == StoreInit /\ [][StoreNext]_vars

\* C18: a v2 get on a live handle returns no value for a key the server does
\* not hold and a present, empty byte sequence for a key that holds the empty
\* value; the two differ: the result is present exactly when the key is held.
C18_GetAbsentIsNotEmpty ==
    (V2Call("get") /\ last.handle \in DOMAIN last.before) =>
        LET key == last.args[1]
        IN  /\ key \notin DOMAIN last.held => last.result = Ok(None)
            /\ (key \in DOMAIN last.held /\ last.held[key] = <<>>) =>
                   last.result = Ok(Some(<<>>))
            /\ last.result.tag = "Ok"
            /\ last.result.val.some <=> key \in DOMAIN last.held
            /\ Ok(None) # Ok(Some(<<>>))

\* C18 witness: a get of a key that holds the empty value has returned a
\* present empty byte sequence, while the other key is not held.
C18_Witness ==
    /\ V2Call("get")
    /\ last.handle \in DOMAIN last.before
    /\ last.args[1] \in DOMAIN last.held
    /\ last.held[last.args[1]] = <<>>
    /\ DOMAIN last.held # Keys
    /\ last.result = Ok(Some(<<>>))

\* The keys a list names.
Named(keys) == {keys[i] : i \in DOMAIN keys}

\* C19: a v2 del on a live handle returns exactly the number of the keys it
\* names that the server held, which are then gone; a key that is not held
\* is no error and does not count, so the count never exceeds the held keys
\* that are named.
C19_DelCountsRemovedKeys ==
    (V2Call("del") /\ last.handle \in DOMAIN last.before) =>
        LET removed == Named(last.args) \cap DOMAIN last.held
        IN  /\ last.result = Ok(U32(Cardinality(removed)))
            /\ DOMAIN store = DOMAIN last.held \ Named(last.args)
            /\ \A k \in DOMAIN store : store[k] = last.held[k]

\* C19 witness: a del naming two keys, of which the server held one, has
\* returned 1.
C19_Witness ==
    /\ V2Call("del")
    /\ last.handle \in DOMAIN last.before
    /\ Cardinality(Named(last.args)) = 2
    /\ Cardinality(Named(last.args) \cap DOMAIN last.held) = 1
    /\ last.result = Ok(U32(1))

\* --------------------------------------- a session of v1 calls, none closed
\* A v2 open once the v1 calls have filled the table.
OpenWhenFull(address, reachable, key) ==
    TableFull(connections) /\ V2Open(address, reachable, key)

\* From the empty table, v1 operations only, and v2 opens once the table is
\* full; no handle is ever closed.
LegacyNext ==
    \/ \E address \in Addresses : \E reachable \in ReachableChoices(address) :
         \E key \in KeyChoices(reachable) : \E reply \in ReplyChoicesV1(reachable, "PUBLISH") :
           V1Publish(address, reachable, key, reply)
    \/ \E address \in Addresses : \E reachable \in ReachableChoices(address) :
         \E key \in KeyChoices(reachable) : \E reply \in ReplyChoicesV1(reachable, "GET") :
           V1Get(address, reachable, key, reply)
    \/ \E address \in Addresses : \E reachable \in ReachableChoices(address) :
         \E key \in KeyChoices(reachable) : \E reply \in ReplyChoicesV1(reachable, "SET") :
           V1Set(address, reachable, key, reply)
    \/ \E address \in Addresses : \E reachable \in ReachableChoices(address) :
         \E key \in KeyChoices(reachable) : \E reply \in ReplyChoicesV1(reachable, "INCRBY") :
           V1Incr(address, reachable, key, reply)
    \/ \E address \in Addresses : \E reachable \in ReachableChoices(address) :
         \E key \in KeyChoices(reachable) : \E reply \in ReplyChoicesV1(reachable, "DEL") :
           V1Del(address, reachable, key, reply)
    \/ \E address \in Addresses : \E reachable \in ReachableChoices(address) :
         \E key \in KeyChoices(reachable) : \E reply \in ReplyChoicesV1(reachable, "SADD") :
           V1Sadd(address, reachable, key, reply)
    \/ \E address \in Addresses : \E reachable \in ReachableChoices(address) :
         \E key \in KeyChoices(reachable) : \E reply \in ReplyChoicesV1(reachable, "SMEMBERS") :
           V1Smembers(address, reachable, key, reply)
    \/ \E address \in Addresses : \E reachable \in ReachableChoices(address) :
         \E key \in KeyChoices(reachable) : \E reply \in ReplyChoicesV1(reachable, "SREM") :
           V1Srem(address, reachable, key, reply)
    \/ \E address \in Addresses : \E reachable \in ReachableChoices(address) :
         \E key \in KeyChoices(reachable) : \E reply \in ReplyChoicesV1(reachable, "EXECUTE") :
           V1Execute(address, reachable, key, reply)
    \/ \E address \in Addresses : \E reachable \in ReachableChoices(address) :
         \E key \in KeyChoices(reachable) : OpenWhenFull(address, reachable, key)

SpecLegacy == Init /\ [][LegacyNext]_vars

\* C20 as stated: once v1 calls have filled the table, every further v1 call
\* returns the one v1 error and every v2 open returns TooManyConnections.
C20_Original ==
    TableFull(last.before) =>
        /\ V1Command => last.result = Err(V1Error)
        /\ V2Call("open") => last.result = Err(TooManyConnections)

\* C20 amended: v1 calls use up the table for good: each v1 call that passed
\* the gate and connected while the table had room adds one entry, no call
\* removes one, and once Capacity such calls have filled the table every
\* further v1 call, to whatever address, returns the one v1 error and every
\* v2 open fails, with TooManyConnections when its address passes the gate
\* and parses and its connect succeeds.
C20_LegacyCallsUseUpCapacityAmended ==
    /\ Size(connections) <= Capacity
    /\ \A h \in DOMAIN last.before : h \in DOMAIN connections
    /\ V1Connected => Size(connections) = Size(last.before) + 1
    /\ (V1Command /\ TableFull(last.before)) =>
           /\ last.result = Err(V1Error)
           /\ connections = last.before
    /\ (V2Call("open") /\ TableFull(last.before)) =>
           /\ last.result.tag = "Err"
           /\ connections = last.before
    /\ (V2OpenConnected /\ TableFull(last.before)) =>
           last.result = Err(TooManyConnections)

\* C20 witness: with the table filled by v1 calls, a v1 call to the permitted
\* address whose connect succeeded has returned the one v1 error.
C20_Witness ==
    /\ V1Command
    /\ TableFull(last.before)
    /\ is_address_allowed(last.address) = Ok(TRUE)
    /\ ClientOpenParses(last.address)
    /\ last.reachable
    /\ last.result = Err(V1Error)

\* ------------------------------------------------------------- v1 get
\* The last call was a v1 get that the server answered.
V1GetAnswered == V1Connected /\ last.op = "get" /\ last.reply.tag = "Ok"

\* C21: a v1 get returns the empty byte sequence when the server does not
\* hold the key, which is also what it returns for a key that holds the empty
\* value: a successful v1 get returns the held value, or the empty sequence,
\* and nothing in the result tells the two cases apart.
C21_LegacyGetAbsentIsEmpty ==
    V1GetAnswered =>
        LET key == last.args[1]
        IN  /\ key \notin DOMAIN last.held => last.result = Ok(<<>>)
            /\ (key \in DOMAIN last.held /\ last.held[key] = <<>>) => last.result = Ok(<<>>)
            /\ key \in DOMAIN last.held => last.result = Ok(last.held[key])

\* C21 witness: a v1 get of a key the server does not hold, while it holds
\* the other key with the empty value, has returned the empty sequence.
C21_Witness ==
    /\ V1GetAnswered
    /\ last.args[1] \notin DOMAIN last.held
    /\ \E k \in DOMAIN last.held : last.held[k] = <<>>
    /\ last.result = Ok(<<>>)

\* ------------------------------------------------ the value of a count
RECURSIVE LimbValue(_)
\* The number a run of at most 16 bits stands for, the lowest bit first.
LimbValue(bits) == IF bits = <<>> THEN 0 ELSE Head(bits) + 2 * LimbValue(Tail(bits))

\* The 16-bit limbs of a number of n limbs given by its bits, the lowest
\* first, with zero for the limbs the bits do not reach.
Limbs(bits, n) ==
    [k \in 1 .. n |->
        IF 16 * k <= Len(bits) THEN LimbValue(SubSeq(bits, 16 * k - 15, 16 * k)) ELSE 0]

\* C22: for every count a v2 del, sadd or srem returns, the v1 operation
\* returns the signed 64-bit integer of the same value: its sign bit is clear,
\* so it is never negative, and limb by limb it is the number the unsigned
\* 32-bit count is.
C22_LegacyCountHasSameValue ==
    V1Counted =>
        /\ last.result.tag = "Ok"
        /\ Len(last.result.val) = 64
        /\ last.result.val[64] = 0
        /\ Limbs(last.result.val, 4) = Limbs(ModernCount, 4)

\* C22 witness: a v1 sadd has returned the count 2^31, whose only set bit is
\* the top bit of the 32, as a number that is not negative.
C22_Witness ==
    /\ V1Counted
    /\ last.op = "sadd"
    /\ \A i \in 1 .. 32 : last.reply.val[i] = (IF i = 32 THEN 1 ELSE 0)
    /\ last.result.tag = "Ok"
    /\ last.result.val[64] = 0
    /\ Limbs(last.result.val, 4) = <<0, 32768, 0, 0>>

\* ------------------------------------------------ what a command leaves
\* C23: no v2 command other than open and drop changes the live handles:
\* after publish, get, set, incr, del, sadd, smembers, srem or execute, on a
\* live handle or not, answered by a reply or by a transport error, the table
\* holds the handles it held, bound to the connections they were bound to,
\* and no connect was attempted.
C23_CommandsKeepTheTable ==
    V2Command =>
        /\ DOMAIN connections = DOMAIN last.before
        /\ \A h \in DOMAIN last.before : connections[h] = last.before[h]
        /\ last.connects = 0

\* C23 witness: a command on a live handle has failed on a transport error,
\* with two connections in the table before and after.
C23_Witness ==
    /\ V2Command
    /\ last.handle \in DOMAIN last.before
    /\ last.reply.tag = "Err"
    /\ last.result.tag = "Err"
    /\ Size(last.before) = 2
    /\ Size(connections) = 2

\* ------------------------------------------- the capacity check comes last
\* The last call was a v2 open or a v1 operation on a permitted address that
\* parses, made while the table was full.
OpenOnFullTable ==
    /\ V2Call("open") \/ V1Command
    /\ is_address_allowed(last.address) = Ok(TRUE)
    /\ ClientOpenParses(last.address)
    /\ TableFull(last.before)

\* What establish_connection made of the last call's address on the table the
\* call found.
Established ==
    establish_connection(last.before, last.address, last.reachable,
                         CHOOSE k \in FreeKeys(last.before) : TRUE)

\* C24: the capacity check comes after the transport connect: an open (v2, or
\* the one a v1 operation makes) on a permitted address that parses, against
\* a full table, makes one transport connect and fails; establish_connection
\* fails with TooManyConnections when the connect succeeded and with the
\* connect error as Other, not TooManyConnections, when it did not.  The v2
\* open returns that error; the v1 operation reports it as its one error.
C24_CapacityCheckedAfterConnect ==
    OpenOnFullTable =>
        /\ last.connects = 1
        /\ last.sent = <<>>
        /\ connections = last.before
        /\ Established.connects = 1
        /\ Established.result =
               (IF last.reachable THEN Err(TooManyConnections)
                ELSE Err(Other(ConnectError.msg)))
        /\ ~last.reachable => Established.result # Err(TooManyConnections)
        /\ last.api = "v2" => last.result = Established.result
        /\ last.api = "v1" => last.result = Err(V1Error)

\* C24 witness: a v2 open on the full table has made its connect, the connect
\* has failed, and the open has returned the connect error.
C24_Witness ==
    /\ OpenOnFullTable
    /\ last.api = "v2"
    /\ ~last.reachable
    /\ last.connects = 1
    /\ last.result = Err(Other("Connection refused"))

\* ------------------------------------------------- plugins upgrade --all
\* Upgrade::upgrade_all walks the manifests directory and, for each entry,
\* looks the plugin up and installs what it found.  A plugin is the place of
\* its entry in the directory listing.
MaxPlugins == 3

\* What manager.get_manifest can make of a plugin: the manifest, the error
\* NotFound, or another error; the two others named here stand for every
\* variant of the error type but NotFound.
LookupOutcomes == {"Found", "NotFound", "ConnectionFailed", "InvalidManifest"}

\* The calls of try_install that can fail, in the order it makes them.
InstallFailures == {"check_manifest", "get_package", "prompt_confirm_install", "install"}

\* continue_to_install: the prompt is not shown under yes_to_all.
continue_to_install(yes_to_all, failure, confirmed) ==
    IF yes_to_all THEN Ok(TRUE)
    ELSE IF failure = "prompt_confirm_install" THEN Err(failure)
    ELSE Ok(confirmed)

\* try_install.  failure: the call that fails, if one does; confirmed: the
\* answer to the prompt.
try_install(yes_to_all, failure, confirmed) ==
    IF failure = "check_manifest" THEN Err(failure)
    ELSE IF failure = "get_package" THEN Err(failure)
    ELSE LET go == continue_to_install(yes_to_all, failure, confirmed)
         IN  IF go.tag = "Err" THEN go
             ELSE IF go.val
             THEN (IF failure = "install" THEN Err(failure) ELSE Ok(TRUE))
             ELSE Ok(FALSE)

\* What one turn of the loop did: whether the loop goes on, the result the
\* function returns if it does not, and what became of the lookup and of
\* the install.
Turn(continues, result, lookup, install) ==
    [continues |-> continues, result |-> result, lookup |-> lookup, install |-> install]

\* The loop body as it would be if every failed lookup were logged and
\* skipped.
upgrade_turn_skips_every_lookup_error(yes_to_all, entry_ok, lookup, failure, confirmed) ==
    IF ~entry_ok THEN Turn(FALSE, Err("read_dir entry"), "NotAttempted", NotAttempted)
    ELSE IF lookup # "Found" THEN Turn(TRUE, NotAttempted, lookup, NotAttempted)
    ELSE LET installed == try_install(yes_to_all, failure, confirmed)
         IN  IF installed.tag = "Err" THEN Turn(FALSE, installed, lookup, installed)
             ELSE Turn(TRUE, NotAttempted, lookup, installed)

\* The loop body as it would be if a failed install were passed over.
upgrade_turn_passes_over_failed_install(yes_to_all, entry_ok, lookup, failure, confirmed) ==
    IF ~entry_ok THEN Turn(FALSE, Err("read_dir entry"), "NotAttempted", NotAttempted)
    ELSE IF lookup = "NotFound" THEN Turn(TRUE, NotAttempted, lookup, NotAttempted)
    ELSE IF lookup # "Found" THEN Turn(FALSE, Err(lookup), lookup, NotAttempted)
    ELSE Turn(TRUE, NotAttempted, lookup, try_install(yes_to_all, failure, confirmed))

\* The body of the loop of upgrade_all for one directory entry.  entry_ok:
\* whether the entry could be read and has a name.
upgrade_turn(yes_to_all, entry_ok, lookup, failure, confirmed) ==
    IF ~entry_ok THEN Turn(FALSE, Err("read_dir entry"), "NotAttempted", NotAttempted)
    ELSE IF lookup = "NotFound" THEN Turn(TRUE, NotAttempted, lookup, NotAttempted)
    ELSE IF lookup # "Found" THEN Turn(FALSE, Err(lookup), lookup, NotAttempted)
    ELSE LET installed == try_install(yes_to_all, failure, confirmed)
         IN  IF installed.tag = "Err" THEN Turn(FALSE, installed, lookup, installed)
             ELSE Turn(TRUE, NotAttempted, lookup, installed)

\* upgrade_all up to the loop: the manager is made and the directory read.
UpgradeAllStart(count, yes_to_all, failure) ==
    /\ run.state = "idle"
    /\ run' = IF failure = "none"
              THEN [state |-> "running", count |-> count, yes_to_all |-> yes_to_all,
                    trace |-> <<>>, result |-> NotAttempted]
              ELSE [state |-> "done", count |-> count, yes_to_all |-> yes_to_all,
                    trace |-> <<>>, result |-> Err(failure)]
    /\ UNCHANGED <<connections, last, phase, closed, store>>

\* One turn of the loop, for the next entry of the directory.
UpgradeAllTurn(entry_ok, lookup, failure, confirmed) ==
    /\ run.state = "running"
    /\ Len(run.trace) < run.count
    /\ LET plugin == Len(run.trace) + 1
           turn == upgrade_turn(run.yes_to_all, entry_ok, lookup, failure, confirmed)
           entry == [plugin |-> plugin, lookup |-> turn.lookup, install |-> turn.install]
       IN  run' = [run EXCEPT !.trace = Append(@, entry),
                              !.state = IF turn.continues THEN "running" ELSE "done",
                              !.result = turn.result]
    /\ UNCHANGED <<connections, last, phase, closed, store>>

\* The loop is over: upgrade_all returns Ok(()).
UpgradeAllReturn ==
    /\ run.state = "running"
    /\ Len(run.trace) = run.count
    /\ run' = [run EXCEPT !.state = "done", !.result = Ok(Unit)]
    /\ UNCHANGED <<connections, last, phase, closed, store>>

UpgradeNext ==
    \/ \E count \in 0 .. MaxPlugins : \E yes_to_all \in BOOLEAN :
          \E failure \in {"none", "PluginManager::default", "read_dir"} :
             UpgradeAllStart(count, yes_to_all, failure)
    \/ \E entry_ok \in BOOLEAN : \E lookup \in LookupOutcomes :
          \E failure \in InstallFailures \cup {"none"} : \E confirmed \in BOOLEAN :
             UpgradeAllTurn(entry_ok, lookup, failure, confirmed)
    \/ UpgradeAllReturn

SpecUpgrade == Init /\ [][UpgradeNext]_vars

\* The run stopped at the turn for plugin i: that turn was the last one and
\* the run returned an error.
StoppedAt(i) == run.state = "done" /\ i = Len(run.trace) /\ run.result.tag = "Err"

\* The run went on after the turn for plugin i: it has not stopped there, and
\* once it is over either a later plugin was taken up or i was the last
\* plugin and the run returned Ok.
WentOnAfter(i) ==
    /\ ~StoppedAt(i)
    /\ run.state = "done" =>
          \/ i < Len(run.trace)
          \/ i = run.count /\ run.result = Ok(Unit)

\* C25: upgrade-all takes the installed plugins up one after another.  A
\* plugin whose lookup fails with NotFound is skipped, without an install,
\* and the run goes on to the remaining plugins; any other lookup error and
\* any error of try_install stops the run at that plugin with that error, no
\* later plugin being taken up.
C25_UpgradeAllSkipsNotFoundOnly ==
    /\ Len(run.trace) <= run.count
    /\ \A i \in 1 .. Len(run.trace) :
          LET turn == run.trace[i]
          IN  /\ turn.plugin = i
              /\ turn.lookup = "NotFound" =>
                    turn.install = NotAttempted /\ WentOnAfter(i)
              /\ turn.lookup \in LookupOutcomes \ {"Found", "NotFound"} =>
                    /\ turn.install = NotAttempted
                    /\ StoppedAt(i)
                    /\ run.result = Err(turn.lookup)
              /\ turn.install.tag = "Err" =>
                    /\ turn.lookup = "Found"
                    /\ StoppedAt(i)
                    /\ run.result = turn.install

\* C25 witness: of three plugins the first was not found and skipped, the
\* second was found and its install failed, and the run ended there with
\* that error, the third plugin never taken up.
C25_Witness ==
    /\ run.state = "done"
    /\ run.count = 3
    /\ Len(run.trace) = 2
    /\ run.trace[1].lookup = "NotFound"
    /\ run.trace[2].lookup = "Found"
    /\ run.trace[2].install = Err("install")
    /\ run.result = Err("install")

=============================================================================
